---- MODULE Spec2Model ----
(***************************************************************************)
(* procman: a ProcessManager supervising child processes (src/src/lib.rs). *)
(*                                                                         *)
(* Threads of the model:                                                   *)
(*   - one thread per call of run_process_with_intercept (Loops),          *)
(*   - one thread running run_director_with_intercept (the director),      *)
(*   - one thread calling stop_process (the stopper).                      *)
(* Each call of run_process_with_intercept builds its own ProcessControl   *)
(* (PCB), so a PCB is identified with the loop thread that built it.       *)
(* The child processes and the outcome of the system calls are the        *)
(* environment.                                                            *)
(***************************************************************************)
EXTENDS Naturals, Sequences, FiniteSets

(* ------------------------------ bounds -------------------------------- *)
\* number of chunks a child writes to its pipes over its life
MaxWrites == 1
\* number of failing system calls (read, try_wait) the environment injects
MaxIOErrs == 2
\* number of calls of stop_process
MaxStops == 2
\* number of hook runs that filter, duplicate or fail
MaxHookActs == 1

\* What the environment may do in one run: a run has the children write, or
\* has system calls fail, or has hooks act, or has stop_process called.
Budgets ==
    { [writes |-> MaxWrites, ioErrs |-> 0, hookActs |-> 0, stops |-> 0],
      [writes |-> 0, ioErrs |-> MaxIOErrs, hookActs |-> 0, stops |-> 0],
      [writes |-> 0, ioErrs |-> 0, hookActs |-> MaxHookActs, stops |-> 0],
      [writes |-> 0, ioErrs |-> 0, hookActs |-> 0, stops |-> MaxStops] }

(* --------------------------- program constants ------------------------ *)
MAX_LINE == 8192
\* the length of "hello\n", what `echo hello` writes in tests/simple.rs
HelloLen == 6

\* the calls of run_process_with_intercept, each on a thread of its own
Loops == {1, 2}
Names == {"foo", "bar"}
\* the names a loop thread may be called with: the first call names "foo"
\* (the names are interchangeable), the later ones any name
LoopNames(t) == IF t = 1 THEN {"foo"} ELSE Names
\* identities of the threads, as holders of a lock; NoThread: the lock is free
NoThread == 0
Director == Cardinality(Loops) + 1
Stopper == Cardinality(Loops) + 2

\* what a child writes in one go: a short line, or more than one buffer
ChunkSizes == {HelloLen, MAX_LINE + 1}

VARIABLES
    procs,      \* ProcessManager.processes: name -> PCB (the HashMap)
    poisoned,   \* the RwLock of `processes` is poisoned (a holder panicked)
    regLock,    \* the thread holding the write lock of `processes`
    pcbLock,    \* per PCB: the thread holding the write lock of the ProcessControl
    queue,      \* per PCB: ProcessControl.event_queue
    child,      \* per PCB: ProcessControl.child and the OS process behind it
    pc,         \* per loop thread: position in run_process_with_intercept
    name,       \* per loop thread: the `name` argument
    hook,       \* per loop thread: the `on_event` argument
    dpc,        \* director: position in run_director_with_intercept
    dhandler,   \* director: the `on_event` argument
    kcalls,     \* director: the events the handler passed to the continuation in the latest visit of this pass
    todo,       \* director: the entries the iteration of line 105 has yet to visit, in its order
    to_remove,  \* director: the vector `to_remove`
    spc,        \* stopper: position in stop_process
    starget,    \* stopper: the PCB `v` removed at line 237
    stops,      \* stopper: the completed calls, [name, found, result]
    ioErrs,     \* failing system calls injected so far
    writes,     \* chunks the children have written so far
    budget,     \* what the environment may do in this run (fixed by Init)
    hookActs,   \* hook runs so far that did anything but forward the event
    produced,   \* history, per PCB: events the loop handed to on_event (173)
    enqueued,   \* history, per PCB: events pushed on the queue (175, 181)
    delivered,  \* history, per PCB: events the director handed to its handler
    hookSaw,    \* history, per loop: the hook was given an Output of length > 0
    hookErr     \* history, per loop: runs of the hook that returned Err

vars == <<kcalls, procs, poisoned, regLock, pcbLock, queue, child, pc, name, hook,
          dpc, dhandler, todo, to_remove, spc, starget, stops, ioErrs, writes,
          hookActs, budget, produced, enqueued, delivered, hookSaw, hookErr>>

(* ------------------------------ events -------------------------------- *)
\* ProcessEvent::Output(handle, buf.to_vec(), len): the vector is the whole buffer
Output(handle, len) == [type |-> "Output", arg |-> handle, len |-> len, size |-> MAX_LINE]
\* ProcessEvent::Exited(status)
Exited(status) == [type |-> "Exited", arg |-> status, len |-> 0, size |-> 0]
\* ProcessEvent::Error(kind(e))
ErrorEv(kind) == [type |-> "Error", arg |-> kind, len |-> 0, size |-> 0]

IsTerminal(ev) == ev.type = "Exited" \/ (ev.type = "Error" /\ ev.arg = "ErrorWaiting")

Min(a, b) == IF a < b THEN a ELSE b

\* Read::read(&mut buf) on a pipe holding `avail` bytes: at most the buffer
\* a read that returns all that the pipe holds, whatever the buffer's size
ReadLenUncapped(avail) == avail

ReadLen(avail) == Min(avail, MAX_LINE)

(* --------------------- the hooks and on_event (173-184) --------------- *)
HookKinds == {"pass", "intercept"}

\* One run of the caller's hook F on `ev`: the events it passes to the
\* continuation, in order, and whether it returns Ok.  "pass" is the hook of
\* run_process (line 232), k(ev); the continuation itself always returns Ok (176).
\* "intercept" is any other hook: it filters, forwards or duplicates, and may fail.
\* the hooks a call may be given in a run: a hook that never filters,
\* duplicates or fails is the hook of run_process
HooksFor(b) == IF b.hookActs = 0 THEN {"pass"} ELSE HookKinds

PassRun(ev) == [fwd |-> <<ev>>, ok |-> TRUE]

HookRuns(h, ev) ==
    IF h = "pass"
    THEN {PassRun(ev)}
    ELSE {[fwd |-> f, ok |-> o] : f \in {<<>>, <<ev>>, <<ev, ev>>}, o \in BOOLEAN}

\* a closure that puts the events at the front of the queue
OnEventQueueFront(q, run) ==
    run.fwd \o (IF run.ok THEN <<>> ELSE <<ErrorEv("ErrorHandling")>>) \o q

\* What the closure of lines 173-184 appends to the queue for one hook run:
\* the forwarded events, then one ErrorHandling event if the hook failed.
OnEventQueue(q, run) ==
    q \o run.fwd \o (IF run.ok THEN <<>> ELSE <<ErrorEv("ErrorHandling")>>)

\* a closure that hands the failure of the hook to its caller
OnEventResultOfHook(run) == IF run.ok THEN "Ok" ELSE "Err"

\* The closure of lines 173-184 returns Ok(()) whatever the hook returned.
OnEventResult(run) == "Ok"

\* on_event(&ctl, ev) for the PCB of loop t
Emit(t, ev, run) ==
    /\ run \in HookRuns(hook[t], ev)
    /\ run = PassRun(ev) \/ hookActs < budget.hookActs
    /\ hookActs' = IF run = PassRun(ev) THEN hookActs ELSE hookActs + 1
    /\ queue' = [queue EXCEPT ![t] = OnEventQueue(@, run)]
    /\ enqueued' = [enqueued EXCEPT ![t] = OnEventQueue(@, run)]
    /\ produced' = [produced EXCEPT ![t] = Append(@, ev)]
    /\ hookSaw' = [hookSaw EXCEPT ![t] = @ \/ (ev.type = "Output" /\ ev.len > 0)]
    /\ hookErr' = [hookErr EXCEPT ![t] = IF run.ok THEN @ ELSE @ + 1]

(* ------------------------- the child processes ------------------------ *)
NoChild == [status |-> "none", reaped |-> FALSE, out |-> 0, err |-> 0]

\* Child::kill(): Err once the exit status has been collected (try_wait returned
\* Some), else SIGKILL is sent, which ends a running process.
KillResult(c) == IF c.reaped THEN "Err" ELSE "Ok"
Kill(c) == IF c.status = "running" THEN [c EXCEPT !.status = "signal"] ELSE c

\* the child writes a chunk to its stdout or stderr
ChildWrite(t) ==
    /\ child[t].status = "running"
    /\ writes < budget.writes
    /\ \E n \in ChunkSizes :
         \/ child' = [child EXCEPT ![t].out = @ + n]
         \/ child' = [child EXCEPT ![t].err = @ + n]
    /\ writes' = writes + 1
    /\ UNCHANGED <<kcalls, hookActs, budget, hookErr, procs, poisoned, regLock, pcbLock, queue, pc, name, hook,
                   dpc, dhandler, todo, to_remove, spc, starget, stops, ioErrs,
                   produced, enqueued, delivered, hookSaw>>

\* the child exits on its own
ChildExit(t) ==
    /\ child[t].status = "running"
    /\ child' = [child EXCEPT ![t].status = "code"]
    /\ UNCHANGED <<kcalls, hookActs, budget, hookErr, procs, poisoned, regLock, pcbLock, queue, pc, name, hook,
                   dpc, dhandler, todo, to_remove, spc, starget, stops, ioErrs,
                   writes, produced, enqueued, delivered, hookSaw>>

(* ------------- run_process_with_intercept (lines 134-226) ------------- *)
\* lines 144-154: the call, with its arguments, and Command::spawn();
\* `.spawn()?` returns the error of a failed spawn
Spawn(t) ==
    /\ pc[t] = "idle"
    /\ \E n \in LoopNames(t), h \in HooksFor(budget) :
         /\ name' = [name EXCEPT ![t] = n]
         /\ hook' = [hook EXCEPT ![t] = h]
    /\ \/ /\ child' = [child EXCEPT ![t].status = "running"]
          /\ pc' = [pc EXCEPT ![t] = "register"]
       \/ /\ child' = child
          /\ pc' = [pc EXCEPT ![t] = "spawn_failed"]
    /\ UNCHANGED <<kcalls, hookActs, budget, hookErr, procs, poisoned, regLock, pcbLock, queue,
                   dpc, dhandler, todo, to_remove, spc, starget, stops, ioErrs,
                   writes, produced, enqueued, delivered, hookSaw>>

\* lines 159-170: processes.write().unwrap().entry(name) ... .or_insert_with(..)
\* A poisoned lock makes unwrap() panic.  With the name vacant the PCB is
\* inserted and the lock released; with the name taken the closure of
\* and_modify runs under the registry lock (RegisterCollide).
Register(t) ==
    /\ pc[t] = "register"
    /\ regLock = NoThread
    /\ IF poisoned
       THEN /\ pc' = [pc EXCEPT ![t] = "panicked"]
            /\ UNCHANGED <<procs, regLock>>
       ELSE IF name[t] \in DOMAIN procs
       THEN /\ regLock' = t
            /\ pc' = [pc EXCEPT ![t] = "collide"]
            /\ procs' = procs
       ELSE /\ procs' = [n \in DOMAIN procs \cup {name[t]} |->
                            IF n = name[t] THEN t ELSE procs[n]]
            /\ pc' = [pc EXCEPT ![t] = "sleep"]
            /\ regLock' = regLock
    /\ UNCHANGED <<kcalls, hookActs, budget, hookErr, poisoned, pcbLock, queue, child, name, hook,
                   dpc, dhandler, todo, to_remove, spc, starget, stops, ioErrs,
                   writes, produced, enqueued, delivered, hookSaw>>

\* lines 164-168: the existing PCB is write-locked and its child killed, the
\* new child is killed, and the thread panics while it holds the registry
\* lock, which poisons that lock.
RegisterCollide(t) ==
    /\ pc[t] = "collide"
    /\ LET e == procs[name[t]] IN
         /\ pcbLock[e] = NoThread
         /\ child' = [child EXCEPT ![e] = Kill(@), ![t] = Kill(@)]
    /\ poisoned' = TRUE
    /\ regLock' = NoThread
    /\ pc' = [pc EXCEPT ![t] = "panicked"]
    /\ UNCHANGED <<kcalls, hookActs, budget, hookErr, procs, pcbLock, queue, name, hook,
                   dpc, dhandler, todo, to_remove, spc, starget, stops, ioErrs,
                   writes, produced, enqueued, delivered, hookSaw>>

\* lines 187-189: after the sleep, ctl.write().unwrap(); the guard lives to
\* the end of the iteration
LoopLock(t) ==
    /\ pc[t] = "sleep"
    /\ pcbLock[t] = NoThread
    /\ pcbLock' = [pcbLock EXCEPT ![t] = t]
    /\ pc' = [pc EXCEPT ![t] = "stdout"]
    /\ UNCHANGED <<kcalls, hookActs, budget, hookErr, procs, poisoned, regLock, queue, child, name, hook,
                   dpc, dhandler, todo, to_remove, spc, starget, stops, ioErrs,
                   writes, produced, enqueued, delivered, hookSaw>>

\* lines 192-202 (stdout) and 204-214 (stderr): one blocking read of at most
\* MAX_LINE bytes.  The read returns the bytes there are, returns 0 at end of
\* file (the child is gone and the pipe is empty), fails, or blocks.
Avail(t, handle) == IF handle = "StdOutput" THEN child[t].out ELSE child[t].err

\* the `?` of lines 202 and 214: an Err of on_event would end the call
AfterRead(next, result) == IF result = "Ok" THEN next ELSE "returned_err"

ReadStream(t, handle, at, next) ==
    /\ pc[t] = at
    /\ \E ev \in {Output(handle, ReadLen(Avail(t, handle))), ErrorEv("ErrorReading")} :
       \E run \in HookRuns(hook[t], ev) :
         /\ IF ev.type = "Output"
            THEN /\ Avail(t, handle) > 0 \/ child[t].status # "running"
                 /\ child' = IF handle = "StdOutput"
                             THEN [child EXCEPT ![t].out = @ - ev.len]
                             ELSE [child EXCEPT ![t].err = @ - ev.len]
                 /\ ioErrs' = ioErrs
            ELSE /\ ioErrs < budget.ioErrs
                 /\ ioErrs' = ioErrs + 1
                 /\ child' = child
         /\ Emit(t, ev, run)
         /\ pc' = [pc EXCEPT ![t] = AfterRead(next, OnEventResult(run))]
         /\ pcbLock' = IF OnEventResult(run) = "Ok" THEN pcbLock
                        ELSE [pcbLock EXCEPT ![t] = NoThread]
    /\ UNCHANGED <<kcalls, procs, poisoned, regLock, name, hook, budget,
                   dpc, dhandler, todo, to_remove, spc, starget, stops,
                   writes, delivered>>

\* a tick that goes from the stdout read to the liveness query
ReadStdoutThenWait(t) == ReadStream(t, "StdOutput", "stdout", "wait")

ReadStdout(t) == ReadStream(t, "StdOutput", "stdout", "stderr")
ReadStderr(t) == ReadStream(t, "StdError", "stderr", "wait")

\* lines 216-224: child.try_wait().  Ok(None): next iteration (the PCB guard
\* is dropped).  Ok(Some(status)): the Exited event, and return.  Err: the
\* ErrorWaiting event, and return.
\* a loop that goes on after the exit status was collected
WaitNextNoReturn(outcome) == IF outcome = "Err" THEN "done" ELSE "sleep"

\* a loop that reports a failed try_wait and goes on
WaitNextErrGoesOn(outcome) == IF outcome = "Some" THEN "done" ELSE "sleep"

WaitNext(outcome) == IF outcome = "None" THEN "sleep" ELSE "done"

TryWait(t) ==
    /\ pc[t] = "wait"
    /\ \/ /\ child[t].status = "running"
          /\ pc' = [pc EXCEPT ![t] = WaitNext("None")]
          /\ UNCHANGED <<child, ioErrs, queue, enqueued, produced, hookSaw, hookActs, hookErr>>
       \/ /\ child[t].status # "running"
          /\ child' = [child EXCEPT ![t].reaped = TRUE]
          /\ \E run \in HookRuns(hook[t], Exited(child[t].status)) :
               Emit(t, Exited(child[t].status), run)
          /\ pc' = [pc EXCEPT ![t] = WaitNext("Some")]
          /\ ioErrs' = ioErrs
       \/ /\ ioErrs < budget.ioErrs
          /\ ioErrs' = ioErrs + 1
          /\ child' = child
          /\ \E run \in HookRuns(hook[t], ErrorEv("ErrorWaiting")) :
               Emit(t, ErrorEv("ErrorWaiting"), run)
          /\ pc' = [pc EXCEPT ![t] = WaitNext("Err")]
    /\ pcbLock' = [pcbLock EXCEPT ![t] = NoThread]
    /\ UNCHANGED <<kcalls, procs, poisoned, regLock, name, hook, budget,
                   dpc, dhandler, todo, to_remove, spc, starget, stops,
                   writes, delivered>>

(* ------------- run_director_with_intercept (lines 93-128) ------------- *)
HandlerKinds == {"default", "intercept"}

\* One run of the director's handler on `ev`: the events it passes to the
\* continuation, in order.  "default" is the handler of run_director (line
\* 131), k(ev).  "intercept" is any other handler: it may not call the
\* continuation, call it with the event, or call it with an event of its own.
HandlerRuns(h, ev) ==
    IF h = "default"
    THEN {<<ev>>}
    ELSE {<<>>, <<ev>>, <<Exited("code")>>}

\* a pop from the wrong end of the queue
PopBack(q) == IF q = <<>> THEN [some |-> FALSE, rest |-> q]
              ELSE [some |-> TRUE, ev |-> q[Len(q)], rest |-> SubSeq(q, 1, Len(q) - 1)]

\* VecDeque::pop_front (line 112)
PopFront(q) == IF q = <<>> THEN [some |-> FALSE, rest |-> q]
               ELSE [some |-> TRUE, ev |-> Head(q), rest |-> Tail(q)]

\* a continuation that marks the process at every call
MarkedAtEveryCall(rm, n, ks) == rm \o [i \in 1..Len(ks) |-> n]

\* a continuation that marks nothing
MarkedNever(rm, n, ks) == rm

\* The continuation of lines 114-118, called on each event of ks in turn:
\* an Exited event pushes the name on to_remove, any other event does nothing.
IsExited(ev) == ev.type = "Exited"
Marked(rm, n, ks) == rm \o [i \in 1..Len(SelectSeq(ks, IsExited)) |-> n]

\* an iteration that may come to the same entry more than once
OrdersWithRepeats(S) == [1..Cardinality(S) -> S]

\* HashMap::iter_mut visits the entries in an order of the map's choosing
Orders(S) == {o \in [1..Cardinality(S) -> S] : \A i, j \in DOMAIN o : i # j => o[i] # o[j]}

\* a removal that takes every entry with it
MapRemoveAll(m, n) == << >>

\* HashMap::remove
MapRemove(m, n) == [k \in DOMAIN m \ {n} |-> m[k]]

\* lines 98-103: after the sleep, processes.read().unwrap().len() == 0 returns
\* Ok(()); the read guard is dropped at the end of the condition
DirectorTick ==
    /\ dpc = "tick"
    /\ regLock = NoThread
    /\ dpc' = IF poisoned THEN "panicked"
              ELSE IF Cardinality(DOMAIN procs) = 0 THEN "done"
              ELSE "lock"
    /\ kcalls' = <<>>
    /\ UNCHANGED <<hookActs, budget, hookErr, procs, poisoned, regLock, pcbLock, queue, child, pc, name, hook,
                   dhandler, todo, to_remove, spc, starget, stops, ioErrs, writes,
                   produced, enqueued, delivered, hookSaw>>

\* line 105: processes.write().unwrap().iter_mut(): the write guard lives as
\* long as the for loop
DirectorLock ==
    /\ dpc = "lock"
    /\ regLock = NoThread
    /\ IF poisoned
       THEN /\ dpc' = "panicked"
            /\ UNCHANGED <<regLock, todo>>
       ELSE /\ todo' \in Orders(DOMAIN procs)
            /\ regLock' = IF todo' = <<>> THEN NoThread ELSE Director
            /\ dpc' = IF todo' = <<>> THEN "tick" ELSE "visit"
    /\ UNCHANGED <<kcalls, hookActs, budget, hookErr, procs, poisoned, pcbLock, queue, child, pc, name, hook,
                   dhandler, to_remove, spc, starget, stops, ioErrs, writes,
                   produced, enqueued, delivered, hookSaw>>

\* a visit whose registry guard outlives the for loop of line 105
DirectorVisitKeepsGuard ==
    /\ dpc = "visit"
    /\ LET n == Head(todo)
           p == procs[n]
           got == PopFront(queue[p])
       IN /\ pcbLock[p] = NoThread
          /\ queue' = [queue EXCEPT ![p] = got.rest]
          /\ IF got.some
             THEN /\ delivered' = [delivered EXCEPT ![p] = Append(@, got.ev)]
                  /\ \E ks \in HandlerRuns(dhandler, got.ev) :
                       /\ kcalls' = ks
                       /\ to_remove' = Marked(to_remove, n, ks)
             ELSE /\ kcalls' = <<>>
                  /\ UNCHANGED <<delivered, to_remove>>
    /\ todo' = Tail(todo)
    /\ regLock' = Director
    /\ dpc' = IF todo' # <<>> THEN "visit"
              ELSE IF to_remove' = <<>> THEN "tick" ELSE "remove"
    /\ UNCHANGED <<hookActs, budget, hookErr, procs, poisoned, pcbLock, child, pc, name, hook,
                   dhandler, spc, starget, stops, ioErrs, writes,
                   produced, enqueued, hookSaw>>

\* lines 105-120, one entry of the iteration: the PCB and its queue are
\* write-locked, one event is popped, and the handler is called on it.  After
\* the last entry the registry guard is dropped.
DirectorVisit ==
    /\ dpc = "visit"
    /\ LET n == Head(todo)
           p == procs[n]
           got == PopFront(queue[p])
       IN /\ pcbLock[p] = NoThread
          /\ queue' = [queue EXCEPT ![p] = got.rest]
          /\ IF got.some
             THEN /\ delivered' = [delivered EXCEPT ![p] = Append(@, got.ev)]
                  /\ \E ks \in HandlerRuns(dhandler, got.ev) :
                       /\ kcalls' = ks
                       /\ to_remove' = Marked(to_remove, n, ks)
             ELSE /\ kcalls' = <<>>
                  /\ UNCHANGED <<delivered, to_remove>>
    /\ todo' = Tail(todo)
    /\ regLock' = IF todo' = <<>> THEN NoThread ELSE Director
    /\ dpc' = IF todo' # <<>> THEN "visit"
              ELSE IF to_remove' = <<>> THEN "tick" ELSE "remove"
    /\ UNCHANGED <<hookActs, budget, hookErr, procs, poisoned, pcbLock, child, pc, name, hook,
                   dhandler, spc, starget, stops, ioErrs, writes,
                   produced, enqueued, hookSaw>>

\* lines 122-125: each name of to_remove is removed under a write lock of its own
DirectorRemove ==
    /\ dpc = "remove"
    /\ regLock = NoThread
    /\ IF poisoned
       THEN /\ dpc' = "panicked"
            /\ UNCHANGED <<procs, to_remove>>
       ELSE /\ procs' = MapRemove(procs, Head(to_remove))
            /\ to_remove' = Tail(to_remove)
            /\ dpc' = IF to_remove' = <<>> THEN "tick" ELSE "remove"
    /\ UNCHANGED <<kcalls, hookActs, budget, hookErr, poisoned, regLock, pcbLock, queue, child, pc, name, hook,
                   dhandler, todo, spc, starget, stops, ioErrs, writes,
                   produced, enqueued, delivered, hookSaw>>

(* --------------------- stop_process (lines 236-246) ------------------- *)
\* line 237: processes.write().unwrap().remove(name); the guard of the
\* registry lives to the end of the `if let`.  An unknown name returns the
\* error of lines 241-244.
StopCall(n) ==
    /\ spc = "idle"
    /\ Len(stops) < budget.stops
    /\ regLock = NoThread
    /\ IF poisoned
       THEN /\ spc' = "panicked"
            /\ UNCHANGED <<procs, regLock, starget, stops>>
       ELSE IF n \in DOMAIN procs
       THEN /\ procs' = MapRemove(procs, n)
            /\ regLock' = Stopper
            /\ starget' = procs[n]
            /\ spc' = "kill"
            /\ stops' = Append(stops, [name |-> n, found |-> TRUE, result |-> "pending"])
       ELSE /\ stops' = Append(stops, [name |-> n, found |-> FALSE, result |-> "NotFound"])
            /\ UNCHANGED <<procs, regLock, starget, spc>>
    /\ UNCHANGED <<kcalls, hookActs, budget, hookErr, poisoned, pcbLock, queue, child, pc, name, hook,
                   dpc, dhandler, todo, to_remove, ioErrs, writes,
                   produced, enqueued, delivered, hookSaw>>

\* lines 238-239: v.write().unwrap().child.kill()?; Ok(())
StopResult(killResult) == IF killResult = "Ok" THEN "Ok" ELSE "KillErr"

StopKill ==
    /\ spc = "kill"
    /\ pcbLock[starget] = NoThread
    /\ child' = [child EXCEPT ![starget] = Kill(@)]
    /\ stops' = [stops EXCEPT ![Len(stops)].result = StopResult(KillResult(child[starget]))]
    /\ regLock' = NoThread
    /\ starget' = NoThread
    /\ spc' = "idle"
    /\ UNCHANGED <<kcalls, hookActs, budget, hookErr, procs, poisoned, pcbLock, queue, pc, name, hook,
                   dpc, dhandler, todo, to_remove, ioErrs, writes,
                   produced, enqueued, delivered, hookSaw>>

(* --------------------------- specification ---------------------------- *)
\* ProcessManager::new() (lines 89-91): an empty registry; no thread has
\* called anything yet, and the director is in its first sleep.
InitWith(b) ==
    /\ procs = << >>
    /\ poisoned = FALSE
    /\ regLock = NoThread
    /\ pcbLock = [t \in Loops |-> NoThread]
    /\ queue = [t \in Loops |-> <<>>]
    /\ child = [t \in Loops |-> NoChild]
    /\ pc = [t \in Loops |-> "idle"]
    /\ name = [t \in Loops |-> "foo"]
    /\ hook = [t \in Loops |-> "pass"]
    /\ dpc = "tick"
    /\ dhandler \in HandlerKinds
    /\ todo = <<>>
    /\ kcalls = <<>>
    /\ to_remove = <<>>
    /\ spc = "idle"
    /\ starget = NoThread
    /\ stops = <<>>
    /\ ioErrs = 0
    /\ writes = 0
    /\ budget = b
    /\ hookActs = 0
    /\ produced = [t \in Loops |-> <<>>]
    /\ enqueued = [t \in Loops |-> <<>>]
    /\ delivered = [t \in Loops |-> <<>>]
    /\ hookSaw = [t \in Loops |-> FALSE]
    /\ hookErr = [t \in Loops |-> 0]

Init == \E b \in Budgets : InitWith(b)

LoopStep(t) ==
    \/ Spawn(t)
    \/ Register(t)
    \/ RegisterCollide(t)
    \/ LoopLock(t)
    \/ ReadStdout(t)
    \/ ReadStderr(t)
    \/ TryWait(t)

DirectorStep ==
    \/ DirectorTick
    \/ DirectorLock
    \/ DirectorVisit
    \/ DirectorRemove

StopStep ==
    \/ \E n \in Names : StopCall(n)
    \/ StopKill

ChildStep == \E t \in Loops : ChildWrite(t) \/ ChildExit(t)

Next ==
    \/ \E t \in Loops : LoopStep(t)
    \/ DirectorStep
    \/ StopStep
    \/ ChildStep

Spec == Init /\ [][Next]_vars

\* Every thread of the program that can take a step eventually takes one; the
\* children owe nothing: a child may never write and never exit.
Fairness ==
    /\ \A t \in Loops : WF_vars(LoopStep(t))
    /\ WF_vars(DirectorStep)
    /\ WF_vars(StopStep)

FairSpec == Init /\ [][Next]_vars /\ Fairness

(* ------------------------------ claims -------------------------------- *)
Last(q) == q[Len(q)]
IsPrefix(a, b) == Len(a) <= Len(b) /\ SubSeq(b, 1, Len(a)) = a
Terminals(q) == {i \in 1..Len(q) : IsTerminal(q[i])}
HasExited(q) == \E i \in 1..Len(q) : IsExited(q[i])
\* the PCB of loop p is the entry stored under its name
Registered(p) == name[p] \in DOMAIN procs /\ procs[name[p]] = p
\* the loop of lines 186-225 has returned
LoopReturned(t) == pc[t] \in {"done", "returned_err"}

\* C1: for every process, the events the director handed to its handler are
\* a prefix of the events the process loop pushed on that process's queue, in
\* the same order, and what is not yet delivered is what the queue holds.
C1_DeliveredIsPrefixOfEnqueued ==
    \A p \in Loops :
        /\ IsPrefix(delivered[p], enqueued[p])
        /\ enqueued[p] = delivered[p] \o queue[p]

\* C1 witness: two events of a process delivered while a different one is pending
C1_Witness ==
    \E p \in Loops :
        /\ Len(delivered[p]) >= 2
        /\ delivered[p][1] # delivered[p][2]
        /\ queue[p] # <<>>
        /\ Head(queue[p]) # delivered[p][2]

\* C2: a process loop hands at most one terminal event (Exited, or Error
\* with ErrorWaiting) to on_event, that event is the last one it produces,
\* and the loop has returned exactly when it has produced it.
C2_OneTerminalEventLast ==
    \A t \in Loops :
        /\ Cardinality(Terminals(produced[t])) <= 1
        /\ \A i \in Terminals(produced[t]) : i = Len(produced[t])
        /\ LoopReturned(t) <=> Terminals(produced[t]) # {}

\* C2 witness: a loop that returned after output events and one terminal event
C2_Witness ==
    \E t \in Loops :
        /\ pc[t] = "done"
        /\ Len(produced[t]) >= 3
        /\ IsTerminal(Last(produced[t]))
        /\ \E u \in Loops : pc[u] = "wait" /\ produced[u] # <<>> /\ Terminals(produced[u]) = {}

\* C3: the director returns Ok only at a tick at which the registry has no
\* entries, and if the registry is empty from some point on the director
\* eventually returns.
C3_ReturnsOnlyWhenEmpty ==
    [][(dpc # "done" /\ dpc' = "done") => (DOMAIN procs = {} /\ procs' = procs)]_vars

C3_DirectorReturnsIffRegistryEmpty ==
    /\ C3_ReturnsOnlyWhenEmpty
    /\ (<>[](DOMAIN procs = {})) => <>(dpc = "done")

\* C4: a registration under a name already in the registry returns the
\* recoverable error NameInUse and touches nothing: no lock is poisoned, no
\* child is killed, the registry and the queues are as they were.
C4_NameInUseIsRecoverable ==
    [][\A t \in Loops :
         pc[t] = "collide" =>
            /\ pc'[t] \in {"collide", "name_in_use"}
            /\ ~poisoned'
            /\ pc'[t] # pc[t] => (child' = child /\ procs' = procs /\ queue' = queue)]_vars

\* C5: a completed stop_process(name) returned Ok if and only if the name was
\* in the registry when it was called, and NotFound otherwise; it never
\* returns an error after having removed the entry.
C5_StopOkIffPresent ==
    \A i \in 1..Len(stops) :
        stops[i].result # "pending" =>
            /\ stops[i].result = "Ok" <=> stops[i].found
            /\ ~stops[i].found => stops[i].result = "NotFound"

\* the director is between two visitation passes, or has returned
BetweenPasses == dpc \in {"tick", "lock", "done"}

\* C6: under run_director (the default handler), once the director has
\* dequeued an Exited event of a process, the entry of that process is out of
\* the registry at the end of that visitation pass and stays out (the name is
\* in the registry again only through a later registration, of another PCB).
C6_ExitedEntryRemovedByEndOfPass ==
    (dhandler = "default" /\ BetweenPasses) =>
        \A p \in Loops : HasExited(delivered[p]) => ~Registered(p)

\* C6 witness: a pass has ended in which Exited was dequeued and the name removed
C6_Witness ==
    /\ dhandler = "default"
    /\ dpc = "tick"
    /\ \E p \in Loops : HasExited(delivered[p]) /\ name[p] \notin DOMAIN procs
                        /\ stops = <<>>

\* C7: with the process loop of tests/simple.rs started on its thread (loop 1)
\* and run_director called on the main thread, run_director has not returned
\* before the process was registered, its output went through the hook and
\* its Exited event was delivered.
C7_DirectorOutlastsTheProcess ==
    dpc = "done" =>
        /\ pc[1] = "done"
        /\ hookSaw[1]
        /\ HasExited(delivered[1])

\* C8: a call of stop_process that found its name eventually returns,
\* whatever the process, its loop and the director are doing.
C8_StopEventuallyReturns == (spc = "kill") ~> (spc = "idle")

\* the director is running: it has neither returned nor panicked
DirectorRuns == dpc \notin {"done", "panicked"}

\* C9: the events pending in the queue of a registered process A, whose own
\* loop has returned, are eventually delivered by a running director,
\* whatever the other processes do (here: while no registration collides and
\* stop_process is not called, so that only another process's loop is left to
\* interfere).
C9_Undisturbed == stops = <<>> /\ spc = "idle" /\ ~poisoned /\ regLock \notin Loops

C9_PendingEventsAreDelivered ==
    \A a \in Loops :
        (Registered(a) /\ pc[a] = "done" /\ queue[a] # <<>> /\ DirectorRuns /\ C9_Undisturbed)
            ~> (queue[a] = <<>> \/ ~Registered(a) \/ ~DirectorRuns \/ ~C9_Undisturbed)

\* where the loop goes after the step at `at` when on_event returned Ok
StepAfter(at) == IF at = "stdout" THEN "stderr" ELSE IF at = "stderr" THEN "wait" ELSE "done"

\* C10: when the hook returns a failure for an event, exactly one Error event
\* of kind ErrorHandling is appended to the queue of that process, after the
\* events the hook forwarded, and the loop goes on as if the hook had
\* succeeded: to the next step of the tick, holding its PCB, or, after the
\* terminal event, to its return.
C10_HookFailureBecomesOneErrorEvent ==
    [][\A t \in Loops :
         hookErr'[t] # hookErr[t] =>
            LET ev == Last(produced'[t])
                added == SubSeq(enqueued'[t], Len(enqueued[t]) + 1, Len(enqueued'[t]))
            IN /\ produced'[t] = Append(produced[t], ev)
               /\ added # <<>>
               /\ Last(added) = ErrorEv("ErrorHandling")
               /\ \A i \in 1..(Len(added) - 1) : added[i] = ev
               /\ queue'[t] = queue[t] \o added
               /\ pc'[t] = StepAfter(pc[t])
               /\ pcbLock'[t] = IF pc'[t] = "done" THEN NoThread ELSE t]_vars

\* C10 witness: a hook failed after forwarding the event, the ErrorHandling
\* event follows it in the queue, and the loop has gone on to produce more
C10_Witness ==
    \E t \in Loops :
        /\ hookErr[t] = 1
        /\ Len(enqueued[t]) >= 3
        /\ enqueued[t][1].type = "Output"
        /\ enqueued[t][2] = ErrorEv("ErrorHandling")
        /\ Len(produced[t]) >= 2

\* the loop of t is inside its loop statement (lines 186-225)
InLoop(t) == pc[t] \in {"sleep", "stdout", "stderr", "wait"}

\* C11: among the error kinds only ErrorWaiting ends a process loop.  After
\* an ErrorReading event, and after a failure of the hook on an event that is
\* not terminal, the loop is at the next step of its tick, still holding its
\* PCB; after an ErrorWaiting event the loop has returned and the child is
\* as it was (not killed).
C11_OnlyErrorWaitingEndsTheLoop ==
    [][\A t \in Loops :
         produced'[t] # produced[t] =>
            LET ev == Last(produced'[t]) IN
            /\ (ev = ErrorEv("ErrorReading")) =>
                  (pc'[t] = StepAfter(pc[t]) /\ InLoop(t)' /\ pcbLock'[t] = t)
            /\ (hookErr'[t] # hookErr[t] /\ ~IsTerminal(ev)) =>
                  (pc'[t] = StepAfter(pc[t]) /\ InLoop(t)' /\ pcbLock'[t] = t)
            /\ (ev = ErrorEv("ErrorWaiting")) =>
                  (pc'[t] = "done" /\ child'[t] = child[t] /\ pcbLock'[t] = NoThread)
            /\ (~InLoop(t)' /\ ev.type = "Error") => ev.arg = "ErrorWaiting"]_vars

\* C11 witness: one loop reported a read failure and went on to produce the
\* next result of its tick, and another loop returned on ErrorWaiting
\* leaving its child unkilled
C11_Witness ==
    \E t, u \in Loops :
        /\ Len(produced[t]) >= 2
        /\ produced[t][1] = ErrorEv("ErrorReading")
        /\ pc[u] = "done"
        /\ Last(produced[u]) = ErrorEv("ErrorWaiting")
        /\ child[u].status \in {"running", "code"}

\* a loop is inside a blocking read of one of its pipes
SomeLoopReads == \E b \in Loops : pc[b] \in {"stdout", "stderr"}

\* C12: with the pass-through hook and the default handler, a registered
\* process whose loop has ended (after Exited or after ErrorWaiting) is
\* eventually removed from the registry while the director runs, unless a
\* stop, a panic or a loop that sits in a read gets in the way.
C12_EndedLoopIsEventuallyRemoved ==
    \A t \in Loops :
        (/\ pc[t] = "done" /\ Registered(t)
         /\ hook[t] = "pass" /\ dhandler = "default"
         /\ DirectorRuns /\ C9_Undisturbed)
            ~> (~Registered(t) \/ ~DirectorRuns \/ ~C9_Undisturbed \/ SomeLoopReads)

\* C13: every Output event a process loop produces has a length between 0
\* and MAX_LINE inclusive, which does not exceed the size of the byte
\* sequence the event carries.
C13_OutputLengthWithinBuffer ==
    \A t \in Loops : \A i \in 1..Len(produced[t]) :
        LET ev == produced[t][i] IN
        ev.type = "Output" =>
            /\ ev.len \in 0..MAX_LINE
            /\ ev.len <= ev.size

\* C13 witness: the child wrote more than MAX_LINE bytes at once and the
\* loop produced an Output event that fills the buffer
C13_Witness ==
    \E t \in Loops : \E i \in 1..Len(produced[t]) :
        /\ produced[t][i].type = "Output"
        /\ produced[t][i].len = MAX_LINE
        /\ produced[t][i].size = MAX_LINE

\* the name is still to be visited in the director's current pass
InTodo(n) == \E i \in 1..Len(todo) : todo[i] = n

\* C14: in one pass of the director at most one event is dequeued from each
\* process's queue and the handler is called at most once per process: a
\* queue shrinks only by its head, in the visit of its process, which hands
\* that one event to the handler and is not repeated in the pass; the visit
\* of a process with an empty queue calls no handler and marks nothing.
C14_OneEventPerProcessPerPass ==
    [][\A p \in Loops :
         /\ Len(queue'[p]) < Len(queue[p]) =>
               /\ dpc = "visit" /\ procs[Head(todo)] = p
               /\ queue'[p] = Tail(queue[p])
               /\ delivered'[p] = Append(delivered[p], Head(queue[p]))
         /\ delivered'[p] # delivered[p] =>
               /\ dpc = "visit" /\ procs[Head(todo)] = p
               /\ queue[p] # <<>>
               /\ delivered'[p] = Append(delivered[p], Head(queue[p]))
               /\ queue'[p] = Tail(queue[p])
               /\ \A i \in 1..Len(todo') : todo'[i] # Head(todo)
         /\ (dpc = "visit" /\ todo' # todo /\ procs[Head(todo)] = p /\ queue[p] = <<>>) =>
               /\ delivered' = delivered
               /\ to_remove' = to_remove
               /\ \A i \in 1..Len(todo') : todo'[i] # Head(todo)]_vars

\* C14 witness: in a pass over two entries the director has visited a
\* process whose loop has returned, took one of its three events and left
\* the other two pending, and still has the other entry to visit
C14_Witness ==
    \E p \in Loops :
        /\ Registered(p) /\ pc[p] = "done"
        /\ dpc = "visit" /\ ~InTodo(name[p])
        /\ Len(delivered[p]) = 1
        /\ Len(queue[p]) = 2

\* C15: a registry entry is added only by the registration step of the loop
\* that then owns it, and removed only by stop_process of that name or by
\* the director's cleanup of that name, which runs after the pass is
\* complete; an entry is never replaced, a process loop removes nothing, and
\* nothing is removed while the director is visiting.
C15_RegistryChangesOnlyByItsOperations ==
    [][\A n \in Names :
         /\ (n \notin DOMAIN procs /\ n \in DOMAIN procs') =>
               \E t \in Loops : /\ pc[t] = "register" /\ pc'[t] = "sleep"
                                /\ name[t] = n /\ procs'[n] = t
         /\ (n \in DOMAIN procs /\ n \notin DOMAIN procs') =>
               /\ pc' = pc
               /\ dpc # "visit"
               /\ \/ /\ spc = "idle" /\ spc' = "kill"
                     /\ stops' # stops /\ Last(stops').name = n
                     /\ dpc' = dpc
                  \/ /\ dpc = "remove" /\ todo = <<>>
                     /\ to_remove # <<>> /\ Head(to_remove) = n
                     /\ to_remove' = Tail(to_remove)
                     /\ spc' = spc
         /\ (n \in DOMAIN procs /\ n \in DOMAIN procs') => procs'[n] = procs[n]]_vars

\* C15 witness: both names were registered; one was removed by the
\* director's cleanup and no stop was called
C15_Witness ==
    /\ stops = <<>>
    /\ \E t, u \in Loops :
         /\ pc[t] = "done" /\ ~Registered(t) /\ name[t] \notin DOMAIN procs
         /\ t # u /\ Registered(u)
         /\ dpc \in {"tick", "remove"}

\* the director's step is the visit of the entry at the head of todo
VisitStep == dpc = "visit" /\ todo' = Tail(todo)

\* the calls of the continuation whose event is an Exited one
ExitedCalls(ks) == {i \in DOMAIN ks : ks[i].type = "Exited"}

\* C16 as stated: a visit marks its process if and only if the handler
\* called the continuation, whatever event it passed.
C16_MarkedIffContinuationCalled ==
    [][VisitStep => ((to_remove' # to_remove) <=> (kcalls' # <<>>))]_vars

\* C16 amended: a visit marks its process once for each call of the
\* continuation whose argument is an Exited event, and for no other call;
\* what counts is the event the handler passes, not the event it was given.
C16_MarkedIffContinuationCalledWithExited ==
    [][VisitStep =>
         /\ Len(to_remove') = Len(to_remove) + Cardinality(ExitedCalls(kcalls'))
         /\ SubSeq(to_remove', 1, Len(to_remove)) = to_remove
         /\ \A i \in (Len(to_remove) + 1)..Len(to_remove') : to_remove'[i] = Head(todo)]_vars

\* C16 witness: the default handler has called the continuation with an
\* Output event of a process and the process is not marked
C16_Witness ==
    /\ dhandler = "default"
    /\ kcalls # <<>> /\ kcalls[1].type = "Output"
    /\ to_remove = <<>>
    /\ dpc \in {"visit", "tick"}

Threads == Loops \cup {Director, Stopper}

\* th is at a request of the registry lock: line 159 of a registration, lines
\* 102, 105 and 124 of the director (stop_process requests it at line 237,
\* in the step that begins the call)
WantsRegistry(th) ==
    IF th \in Loops THEN pc[th] = "register"
    ELSE IF th = Director THEN dpc \in {"tick", "lock", "remove"}
    ELSE FALSE

\* the PCB whose lock th is requesting, if any: line 164 of a colliding
\* registration, line 189 of a tick, line 107 of a visit, line 238 of a stop
WantedPcb(th) ==
    IF th \in Loops
    THEN IF pc[th] = "collide" THEN procs[name[th]]
         ELSE IF pc[th] = "sleep" THEN th
         ELSE NoThread
    ELSE IF th = Director THEN (IF dpc = "visit" THEN procs[Head(todo)] ELSE NoThread)
    ELSE IF th = Stopper THEN (IF spc = "kill" THEN starget ELSE NoThread)
    ELSE NoThread

\* the thread that holds the lock th is requesting (NoThread: th requests
\* no lock, or a free one)
Blocker(th) ==
    IF th = NoThread THEN NoThread
    ELSE IF WantsRegistry(th) THEN regLock
    ELSE IF WantedPcb(th) # NoThread THEN pcbLock[WantedPcb(th)]
    ELSE NoThread

\* the threads th waits for, directly or through at most k waiting threads
RECURSIVE BlockedBy(_, _)
BlockedBy(th, k) ==
    IF k = 0 \/ Blocker(th) = NoThread THEN {}
    ELSE {Blocker(th)} \cup BlockedBy(Blocker(th), k - 1)

\* C17: locks are taken in the order registry, PCB (the queue's lock is
\* taken and released inside steps that hold the PCB's): no thread that
\* requests the registry lock holds a PCB lock, a thread that requests a PCB
\* lock holds no other PCB lock, and no thread waits, directly or through
\* other waiting threads, for a lock held by itself.
C17_LockOrderAndNoWaitCycle ==
    \A th \in Threads :
        /\ WantsRegistry(th) => \A p \in Loops : pcbLock[p] # th
        /\ WantedPcb(th) # NoThread => \A p \in Loops : pcbLock[p] # th
        /\ th \notin BlockedBy(th, Cardinality(Threads))

\* C17 witness: the director waits for the registry, held by a stop_process
\* that waits for a PCB, held by a loop that waits for no lock
C17_Witness ==
    /\ WantsRegistry(Director) /\ Blocker(Director) = Stopper
    /\ Blocker(Stopper) \in Loops
    /\ Blocker(Blocker(Stopper)) = NoThread
    /\ BlockedBy(Director, Cardinality(Threads)) = {Stopper, Blocker(Stopper)}

\* C18: once the entry of a registered loop has been removed from the
\* registry, the loop produces no further event (it completes no further
\* read and reports no exit) and nothing more is enqueued on its queue.
C18_RemovedPcbIsNoLongerUsed ==
    [][\A t \in Loops :
         (InLoop(t) /\ ~Registered(t)) =>
            /\ produced'[t] = produced[t]
            /\ enqueued'[t] = enqueued[t]]_vars

\* the director's step removes the entry of the name at the head of to_remove
RemoveStep == dpc = "remove" /\ procs' # procs

\* C19: with the pass-through hook, the default handler and no stop_process
\* call, when the director removes an entry the queue of that process is
\* empty and its loop has returned, and the events handed to the handler are
\* exactly the events the loop produced, in order.
C19_NothingPendingAtRemoval ==
    [][(RemoveStep /\ dhandler = "default" /\ stops = <<>>
          /\ hook[procs[Head(to_remove)]] = "pass") =>
         LET t == procs[Head(to_remove)] IN
         /\ queue[t] = <<>>
         /\ pc[t] = "done"
         /\ delivered[t] = produced[t]
         /\ Last(delivered[t]).type = "Exited"]_vars

\* C19 witness: the director has removed the entry of a process that
\* produced output of some length before it exited, with all of it delivered
C19_Witness ==
    \E t \in Loops :
        /\ dhandler = "default" /\ stops = <<>> /\ hook[t] = "pass"
        /\ pc[t] = "done" /\ name[t] \notin DOMAIN procs
        /\ Len(produced[t]) >= 3
        /\ hookSaw[t]
        /\ delivered[t] = produced[t]
        /\ dpc = "tick"

\* the result of a read of the stream `handle`: its Output event or ErrorReading
IsReadResult(ev, handle) ==
    \/ ev.type = "Output" /\ ev.arg = handle
    \/ ev = ErrorEv("ErrorReading")

\* C20: the events of a loop come tick by tick in the order stdout result,
\* stderr result, liveness result.  A tick whose child still runs produces
\* two events, so: an event at an odd place is the stdout result, one at an
\* even place the stderr result, each read (of any length, 0 included)
\* having produced exactly one, and the Exited or ErrorWaiting event is the
\* last one, right after the stdout and stderr results of its tick.
C20_TickOrder ==
    \A t \in Loops :
        LET n == Len(produced[t]) IN
        /\ \A i \in 1..n :
             IF IsTerminal(produced[t][i])
             THEN i = n /\ i % 2 = 1 /\ i >= 3 /\ pc[t] = "done"
             ELSE IF i % 2 = 1 THEN IsReadResult(produced[t][i], "StdOutput")
             ELSE IsReadResult(produced[t][i], "StdError")
        /\ pc[t] \in {"sleep", "stdout", "wait"} => n % 2 = 0
        /\ pc[t] = "stderr" => n % 2 = 1
        /\ pc[t] = "wait" => n >= 2
        /\ pc[t] = "done" => n % 2 = 1 /\ n >= 3

\* C20 witness: a tick read "hello\n" from stdout, then end of file (length
\* 0) from stderr, then found the child exited
C20_Witness ==
    \E t \in Loops :
        /\ Len(produced[t]) = 3
        /\ produced[t][1] = Output("StdOutput", HelloLen)
        /\ produced[t][2] = Output("StdError", 0)
        /\ produced[t][3].type = "Exited"

====
